---- MODULE Spec2Model ----
(***************************************************************************)
(* The feed harvesting subsystem of grepr (reddit_fetcher.py): selection   *)
(* between the authenticated (PRAW) transport and the public .json         *)
(* transport, pagination, score filtering, top-comment enrichment, and the *)
(* two harvest entry points fetch_all_posts and fetch_new_posts.           *)
(*                                                                         *)
(* Generators are modelled frame by frame: the variable gen is the frame   *)
(* of the generator the consumer is pulling from, and every action is one  *)
(* stretch of code between two points where control can rest (a yield, a   *)
(* network answer, the end of a loop body).  The transports are the        *)
(* environment: each answer is drawn from the set of answers the transport *)
(* can give ("live"), or is the one answer a stateless scripted transport  *)
(* gives to that request ("scripted").                                     *)
(***************************************************************************)
EXTENDS Integers, Sequences, FiniteSets, TLC

(* ------------------------------ bounds -------------------------------- *)

\* communities taken from the head of the configured list
NumSubs == 2
\* the small limit / limit_per_sub a caller passes
MaxLimit == 2
\* most items a public page carries
MaxPage == 2
\* most upstream items the live transports deliver during one top-level call
MaxItems == 3
\* longest listing of a scripted transport
MaxListing == 3
\* longest listing an endless public endpoint serves in a cycle
MaxCycle == 1

(* ------------------------- program constants -------------------------- *)

MIN_SCORE == 10
POSTS_PER_REQUEST == 100
\* default of since_hours, in hours
SINCE_HOURS == 24
TIME_FILTER == "all"
RawSubreddits ==
    <<"vosfinances", "vossous", "Bogleheads", "eupersonalfinance", "ETFs_Europe">>
SUBREDDITS == SubSeq(RawSubreddits, 1, NumSubs)

(* ------------------------------ values -------------------------------- *)

None == "None"
Client == "Reddit"
\* JSON null / Python None inside a post body
NULL == "null"
\* the clock reading time.time() returns (seconds)
Now == 48 * 3600

Min(a, b) == IF a <= b THEN a ELSE b

SeqsUpTo(S, n) == UNION {[1..k -> S] : k \in 0..n}

\* The upstream items a transport can deliver: one just below the score
\* threshold, one exactly on the threshold and exactly on the oldest accepted
\* creation time, one well above the threshold but one second too old, and
\* one whose body text is null.
Items ==
    { [score |-> MIN_SCORE - 1, created_utc |-> Now - 60, selftext |-> "text"],
      [score |-> MIN_SCORE, created_utc |-> Now - SINCE_HOURS * 3600, selftext |-> "text"],
      [score |-> 50, created_utc |-> Now - SINCE_HOURS * 3600 - 1, selftext |-> "text"],
      [score |-> 50, created_utc |-> Now - 60, selftext |-> NULL] }

WellFormedItems == {it \in Items : it.selftext # NULL}

NoItem == [score |-> 0, created_utc |-> 0, selftext |-> ""]

NoPost == [id |-> 0]

(* ---------------------------- environment ----------------------------- *)

LiveEnv ==
    [mode |-> "live", ctor |-> "ok", me |-> "ok", listing |-> <<>>, page_size |-> 1,
     praw_raise_at |-> -1, praw_comment |-> "none", pub_comment |-> "none"]

\* Stateless scripted transports: every community serves the same ranked
\* listing (the posts differ by their subreddit field), the public endpoint
\* cuts it into pages of page_size items, the authenticated listing raises
\* after praw_raise_at items (-1: never), and every comment request of a
\* transport is answered the same way.
ScriptedEnvs ==
    { [mode |-> "scripted", ctor |-> a[1], me |-> a[2], listing |-> l, page_size |-> ps,
       praw_raise_at |-> r, praw_comment |-> pc_, pub_comment |-> uc] :
         a \in {<<"ok", "raise">>, <<"ok", "ok">>},
         l \in SeqsUpTo(WellFormedItems, MaxListing),
         ps \in 1..MaxPage,
         r \in {-1, 1, 2},
         pc_ \in {"comment", "raise"},
         uc \in {"comment", "none"} }
    \cup
    \* an authenticated transport that raises on every operation
    { [mode |-> "scripted", ctor |-> "raise", me |-> "raise", listing |-> l,
       page_size |-> ps, praw_raise_at |-> 0, praw_comment |-> "raise",
       pub_comment |-> uc] :
         l \in SeqsUpTo(WellFormedItems, MaxListing),
         ps \in 1..MaxPage,
         uc \in {"comment", "none"} }

\* Stateless transports whose public endpoint never runs out: the listing of
\* a community is served in a cycle, every page carrying a cursor to the next
\* one (an empty listing is served as one empty page).  The authenticated
\* transport either works or raises on every operation.
EndlessEnvs ==
    { [mode |-> "cyclic", ctor |-> a, me |-> a, listing |-> l, page_size |-> ps,
       praw_raise_at |-> r, praw_comment |-> "comment", pub_comment |-> uc] :
         a \in {"ok", "raise"},
         l \in SeqsUpTo(WellFormedItems, MaxCycle),
         ps \in 1..MaxPage,
         r \in {-1, 0},
         uc \in {"comment", "none"} }

VARIABLES
    REDDIT_API_ENABLED,   \* config.py: credentials configured
    PRAW_AVAILABLE,       \* the client library could be imported
    env,                  \* the transports: LiveEnv or one of ScriptedEnvs
    _reddit_instance,     \* the module-level cached client
    validated,            \* history: user.me() succeeded on the cached client
    call,                 \* the running top-level call and its arguments
    pc,                   \* where the caller of the generator stands
    subidx,               \* index into SUBREDDITS of the harvest loop
    gen,                  \* frame of the generator being consumed
    post,                 \* the post the generator yielded last
    all_posts,            \* the list the call accumulates / returns
    cutoff_time,          \* fetch_new_posts: time.time() - since_hours * 3600
    top_comment,          \* value returned by the last fetch_top_comment
    last_fetch,           \* history: what the transports answered to that fetch
    delay,                \* last enrichment delay slept, in milliseconds
    served,               \* upstream items delivered during this call
    delivered,            \* history: posts yielded to the caller in this call
    log,                  \* history: transport operations of this call, in order
    prev_posts            \* history: list returned by the call this one repeats

vars ==
    <<REDDIT_API_ENABLED, PRAW_AVAILABLE, env, _reddit_instance, validated,
      call, pc, subidx, gen, post, all_posts, cutoff_time, top_comment, last_fetch,
      delay, served, delivered, log, prev_posts>>

config == <<REDDIT_API_ENABLED, PRAW_AVAILABLE, env>>

(* ----------------------- records of the program ----------------------- *)

\* One entry of the per-call history of transport operations.
Op(name, subreddit, a, l) == [op |-> name, sub |-> subreddit, after |-> a, limit |-> l]

\* The score filter with its threshold off by one.
AcceptsOneBelow(score) == score >= MIN_SCORE - 1

\* reddit_fetcher.py:67 and :157, the inline score filter.
Accepts(score) == score >= MIN_SCORE

\* reddit_fetcher.py:70-82, the post built from an authenticated listing item:
\* a null body becomes the empty string.
praw_post(subreddit, rank, item) ==
    [id |-> rank, subreddit |-> subreddit, score |-> item.score,
     created_utc |-> item.created_utc,
     selftext |-> IF item.selftext = NULL THEN "" ELSE item.selftext]

\* reddit_fetcher.py:161-173, the post built from a public page item whose
\* body is a string (a null body raises TypeError in the slice, see PublicItem).
public_post(subreddit, rank, item) ==
    [id |-> rank, subreddit |-> subreddit, score |-> item.score,
     created_utc |-> item.created_utc, selftext |-> item.selftext]

\* The four comment fields both transports return for the top comment.
Comment(subreddit, post_id) ==
    [comment_id |-> post_id, comment_body |-> "body", comment_score |-> 1,
     comment_author |-> "author"]

CommentFields == {"comment_id", "comment_body", "comment_score", "comment_author"}

Absent == [some |-> FALSE, value |-> Comment("", 0)]
Some(c) == [some |-> TRUE, value |-> c]

\* dict.update: the keys of c are set in p, every other key of p is kept.
Update(p, c) ==
    [k \in DOMAIN p \cup DOMAIN c |-> IF k \in DOMAIN c THEN c[k] ELSE p[k]]

(* ------------------------ get_reddit_client --------------------------- *)

\* get_reddit_client without the test of line 33: a client is constructed and
\* validated at every call.
get_reddit_client_no_cache(inst, val, ctor, me) ==
    IF ~REDDIT_API_ENABLED \/ ~PRAW_AVAILABLE
    THEN [ret |-> None, inst |-> inst, validated |-> val, ops |-> <<>>]
    ELSE IF ctor = "raise"
    THEN [ret |-> None, inst |-> inst, validated |-> val,
          ops |-> <<Op("praw.Reddit", "", 0, 0)>>]
    ELSE IF me = "raise"
    THEN [ret |-> None, inst |-> Client, validated |-> FALSE,
          ops |-> <<Op("praw.Reddit", "", 0, 0), Op("user.me", "", 0, 0)>>]
    ELSE [ret |-> Client, inst |-> Client, validated |-> TRUE,
          ops |-> <<Op("praw.Reddit", "", 0, 0), Op("user.me", "", 0, 0)>>]

\* reddit_fetcher.py:26-47.  ctor and me are the transport's answers to the
\* construction praw.Reddit(...) and to the validation user.me().  The cached
\* instance is assigned by the construction, before the validation runs.
get_reddit_client(inst, val, ctor, me) ==
    IF ~REDDIT_API_ENABLED \/ ~PRAW_AVAILABLE
    THEN [ret |-> None, inst |-> inst, validated |-> val, ops |-> <<>>]
    ELSE IF inst = None
    THEN IF ctor = "raise"
         THEN [ret |-> None, inst |-> None, validated |-> val,
               ops |-> <<Op("praw.Reddit", "", 0, 0)>>]
         ELSE IF me = "raise"
         THEN [ret |-> None, inst |-> Client, validated |-> FALSE,
               ops |-> <<Op("praw.Reddit", "", 0, 0), Op("user.me", "", 0, 0)>>]
         ELSE [ret |-> Client, inst |-> Client, validated |-> TRUE,
               ops |-> <<Op("praw.Reddit", "", 0, 0), Op("user.me", "", 0, 0)>>]
    ELSE [ret |-> inst, inst |-> inst, validated |-> val, ops |-> <<>>]

(* ------------------------- top comment fetch -------------------------- *)

\* reddit_fetcher.py:185-211.  ans is the endpoint's answer: a thread with a
\* top comment, no comment, a network/HTTP failure (caught), or a body of
\* unexpected shape, which raises an exception that is not a
\* RequestException and so leaves the function.
fetch_top_comment_public(post_id, subreddit, ans) ==
    [ret |-> IF ans = "comment" THEN Some(Comment(subreddit, post_id)) ELSE Absent,
     raised |-> ans = "bad",
     ops |-> <<Op("GET comments", subreddit, post_id, 1)>>,
     praw |-> "", pub |-> ans]

\* The authenticated comment fetch giving up when it gets no client, instead
\* of going to the public endpoint (line 100).
fetch_top_comment_praw_gives_up(post_id, subreddit, c, pans, uans) ==
    IF c.ret = None
    THEN [ret |-> Absent, raised |-> FALSE, ops |-> c.ops, praw |-> "", pub |-> ""]
    ELSE [ret |-> IF pans = "comment" THEN Some(Comment(subreddit, post_id)) ELSE Absent,
          raised |-> FALSE,
          ops |-> c.ops \o <<Op("reddit.submission", subreddit, post_id, 0)>>,
          praw |-> pans, pub |-> ""]

\* reddit_fetcher.py:93-117.  c is the record get_reddit_client returned, pans
\* the authenticated transport's answer, uans the public endpoint's.
fetch_top_comment_praw(post_id, subreddit, c, pans, uans) ==
    IF c.ret = None
    THEN LET u == fetch_top_comment_public(post_id, subreddit, uans)
         IN  [u EXCEPT !.ops = c.ops \o @]
    ELSE [ret |-> IF pans = "comment" THEN Some(Comment(subreddit, post_id)) ELSE Absent,
          raised |-> FALSE,
          ops |-> c.ops \o <<Op("reddit.submission", subreddit, post_id, 0)>>,
          praw |-> pans, pub |-> ""]

\* The selection made on the credentials alone, as the delay of line 263 is.
UsePrawWhenEnabled == REDDIT_API_ENABLED

\* reddit_fetcher.py:221 and :232, the test that sends a fetch to the
\* authenticated functions.
UsePraw == REDDIT_API_ENABLED /\ PRAW_AVAILABLE

\* reddit_fetcher.py:227-235.
fetch_top_comment(post_id, subreddit, c, pans, uans) ==
    IF UsePraw
    THEN fetch_top_comment_praw(post_id, subreddit, c, pans, uans)
    ELSE fetch_top_comment_public(post_id, subreddit, uans)

(* ----------------------- answers of the transports -------------------- *)

Live == env.mode = "live"
Endless == env.mode = "cyclic"

\* The answers are drawn only where the program asks: the construction and the
\* validation while no client is cached, the authenticated comment fetch while
\* the authenticated functions are selected.
CtorAnswers ==
    IF Live /\ UsePraw /\ _reddit_instance = None THEN {"ok", "raise"} ELSE {env.ctor}
MeAnswers ==
    IF Live /\ UsePraw /\ _reddit_instance = None THEN {"ok", "raise"} ELSE {env.me}
PrawCommentAnswers ==
    IF Live /\ UsePraw THEN {"comment", "none", "raise"} ELSE {env.praw_comment}
PubCommentAnswers ==
    IF Live THEN {"comment", "none", "fail", "bad"} ELSE {env.pub_comment}

Raise == [kind |-> "raise", item |-> NoItem]
End == [kind |-> "end", item |-> NoItem]
Item(it) == [kind |-> "item", item |-> it]

\* What iterating sub.top(time_filter, limit) gives after `considered` items:
\* the listing stops by itself after `limit` items.
PrawAnswers(considered, limit) ==
    IF considered >= limit THEN {End}
    ELSE IF Live
    THEN {Raise, End} \cup (IF served < MaxItems THEN {Item(it) : it \in Items} ELSE {})
    ELSE IF env.praw_raise_at = considered THEN {Raise}
    ELSE IF considered < Len(env.listing) THEN {Item(env.listing[considered + 1])}
    ELSE {End}

Fail == [kind |-> "fail", items |-> <<>>, cursor |-> FALSE]
Page(items, cursor) == [kind |-> "page", items |-> items, cursor |-> cursor]

\* What the public endpoint answers to a page request carrying the cursor
\* `after` (0: no cursor).  A cursor names the rank of the last item served.
PageAnswers(after) ==
    IF Live
    THEN {Fail, Page(<<>>, FALSE)}
         \cup {Page(items, cur) :
                 items \in SeqsUpTo(Items, Min(MaxPage, MaxItems - served)) \ {<<>>},
                 cur \in BOOLEAN}
    ELSE IF Endless
    THEN IF env.listing = <<>>
         THEN {Page(<<>>, FALSE)}
         ELSE LET first == (after % Len(env.listing)) + 1
                  last == Min(first + env.page_size - 1, Len(env.listing))
              IN  {Page(SubSeq(env.listing, first, last), TRUE)}
    ELSE LET last == Min(after + env.page_size, Len(env.listing))
         IN  {Page(SubSeq(env.listing, after + 1, last), last < Len(env.listing))}

\* The rank of the item that follows the one of rank b in the listing the
\* endpoint serves: an endless endpoint serves the same ranks again.
Rank(b) == IF Endless THEN (b % Len(env.listing)) + 1 ELSE b + 1

\* The histories are kept where they are finite: an endless endpoint is
\* asked without end.
Keep(h, x) == IF Endless THEN h ELSE Append(h, x)

(* ------------------------- generator frames --------------------------- *)

NoGen ==
    [state |-> "none", sub |-> "", time_filter |-> "", limit |-> 0, considered |-> 0,
     total_fetched |-> 0, after |-> 0, buf |-> <<>>, base |-> 0, cursor |-> FALSE,
     entered |-> "", pub_from |-> 0, pages |-> <<>>, reqs |-> <<>>]

\* A generator object that was created and not started yet: calling a
\* generator function runs none of its body.
NewGen(subreddit, time_filter, limit) ==
    [NoGen EXCEPT !.state = "new", !.sub = subreddit, !.time_filter = time_filter,
                  !.limit = limit]

\* reddit_fetcher.py:127-130, the start of fetch_subreddit_posts_public: always
\* from the first page and a count of zero, however it was entered ("direct"
\* from line 224, "noclient" from line 58, "fallback" from line 90).
StartPublic(g, how) ==
    [g EXCEPT !.state = "public", !.after = 0, !.total_fetched = 0, !.buf = <<>>,
              !.base = 0, !.cursor = FALSE, !.entered = how,
              !.pub_from = Len(delivered), !.pages = <<>>, !.reqs = <<>>]

(* ------------------------------ calls --------------------------------- *)

NoFetch == [praw |-> "", pub |-> ""]

NoCall ==
    [kind |-> "none", with_comments |-> FALSE, limit |-> 0, sub |-> 0,
     since_hours |-> 0, post_id |-> 0]

\* the limits callers pass: a small one, and the default
Limits == {MaxLimit, POSTS_PER_REQUEST}

Calls ==
    {[NoCall EXCEPT !.kind = "fetch_all_posts", !.with_comments = w, !.limit = l] :
        w \in BOOLEAN, l \in Limits}
    \cup {[NoCall EXCEPT !.kind = "fetch_new_posts", !.with_comments = w,
                         !.since_hours = SINCE_HOURS] : w \in BOOLEAN}
    \cup {[NoCall EXCEPT !.kind = "fetch_subreddit_posts", !.sub = s, !.limit = l] :
        s \in 1..NumSubs, l \in Limits}
    \cup {[NoCall EXCEPT !.kind = "fetch_top_comment", !.sub = s, !.post_id = 1] :
        s \in 1..NumSubs}

Harvest == call.kind \in {"fetch_all_posts", "fetch_new_posts"}

\* The module right after import: reddit_fetcher.py:23 (_reddit_instance =
\* None), nothing called yet.
Imported ==
    /\ _reddit_instance = None
    /\ validated = FALSE
    /\ call = NoCall
    /\ pc = "idle"
    /\ subidx = 1
    /\ gen = NoGen
    /\ post = NoPost
    /\ all_posts = <<>>
    /\ cutoff_time = 0
    /\ top_comment = Absent
    /\ last_fetch = NoFetch
    /\ delay = 0
    /\ served = 0
    /\ delivered = <<>>
    /\ log = <<>>
    /\ prev_posts = <<>>

\* Any configuration (config.py:32, reddit_fetcher.py:15-19), live transports.
Init ==
    /\ REDDIT_API_ENABLED \in BOOLEAN
    /\ PRAW_AVAILABLE \in BOOLEAN
    /\ env = LiveEnv
    /\ Imported

\* Credentials configured and library importable, scripted transports.
InitScripted ==
    /\ REDDIT_API_ENABLED = TRUE
    /\ PRAW_AVAILABLE = TRUE
    /\ env \in ScriptedEnvs
    /\ Imported

\* Credentials configured and library importable, an endless public endpoint.
InitEndless ==
    /\ REDDIT_API_ENABLED = TRUE
    /\ PRAW_AVAILABLE = TRUE
    /\ env \in EndlessEnvs
    /\ Imported

\* A caller of the module starts one of its entry points.  fetch_all_posts
\* (line 247) and fetch_new_posts (lines 276-277) set up their list and the
\* cutoff; fetch_subreddit_posts only creates the generator its caller then
\* consumes to the end.
Call(c) ==
    /\ pc \in {"idle", "returned", "raised"}
    /\ call' = c
    /\ all_posts' = <<>>
    /\ subidx' = 1
    /\ post' = NoPost
    /\ top_comment' = Absent
    /\ last_fetch' = NoFetch
    /\ delay' = 0
    /\ served' = 0
    /\ delivered' = <<>>
    /\ log' = <<>>
    /\ cutoff_time' =
          IF c.kind = "fetch_new_posts" THEN Now - c.since_hours * 3600 ELSE 0
    /\ gen' = IF c.kind = "fetch_subreddit_posts"
              THEN NewGen(SUBREDDITS[c.sub], TIME_FILTER, c.limit)
              ELSE NoGen
    /\ pc' = CASE c.kind \in {"fetch_all_posts", "fetch_new_posts"} -> "loop"
               [] c.kind = "fetch_subreddit_posts" -> "pull"
               [] OTHER -> "comment"
    /\ prev_posts' = IF ~Live /\ pc = "returned" /\ call = c /\ c.kind = "fetch_all_posts"
                     THEN <<all_posts>>
                     ELSE <<>>
    /\ UNCHANGED <<config, _reddit_instance, validated>>

\* reddit_fetcher.py:255-258 and :279-282, the head of `for subreddit in
\* SUBREDDITS` with a community left: the generator for it is created.
ForSubreddit ==
    /\ pc = "loop"
    /\ subidx <= Len(SUBREDDITS)
    /\ gen' = IF call.kind = "fetch_all_posts"
              THEN NewGen(SUBREDDITS[subidx], TIME_FILTER, call.limit)
              ELSE NewGen(SUBREDDITS[subidx], "day", 100)
    /\ pc' = "pull"
    /\ UNCHANGED <<config, _reddit_instance, validated, call, subidx, post,
                   all_posts, cutoff_time, top_comment, last_fetch, delay, served, delivered, log,
                   prev_posts>>

\* reddit_fetcher.py:267-268 and :291-292, the loop over SUBREDDITS is over.
ReturnPosts ==
    /\ pc = "loop"
    /\ subidx > Len(SUBREDDITS)
    /\ pc' = "returned"
    /\ UNCHANGED <<config, _reddit_instance, validated, call, subidx, gen, post,
                   all_posts, cutoff_time, top_comment, last_fetch, delay, served, delivered, log,
                   prev_posts>>

\* reddit_fetcher.py:221-224 and :55-59, the first pull on the generator:
\* fetch_subreddit_posts picks the transport, and the authenticated one asks
\* for the client and goes to the public transport when it gets none.
Dispatch(ctor, me) ==
    /\ pc = "pull"
    /\ gen.state = "new"
    /\ LET c == get_reddit_client(_reddit_instance, validated, ctor, me)
       IN  IF UsePraw
           THEN /\ _reddit_instance' = c.inst
                /\ validated' = c.validated
                /\ log' = log \o c.ops
                /\ gen' = IF c.ret = None
                          THEN StartPublic(gen, "noclient")
                          ELSE [gen EXCEPT !.state = "praw"]
           ELSE /\ gen' = StartPublic(gen, "direct")
                /\ UNCHANGED <<_reddit_instance, validated, log>>
    /\ UNCHANGED <<config, call, pc, subidx, post, all_posts, cutoff_time,
                   top_comment, last_fetch, delay, served, delivered, prev_posts>>

\* reddit_fetcher.py:61-90, one iteration of `for post in sub.top(...)`: the
\* listing ends, or raises (then the except clause starts the public
\* generator), or gives an item, which is yielded when its score passes.
PrawNext ==
    /\ pc = "pull"
    /\ gen.state = "praw"
    /\ log' = Append(log, Op("sub.top", gen.sub, gen.considered, gen.limit))
    /\ \E ans \in PrawAnswers(gen.considered, gen.limit) :
          CASE ans.kind = "end" ->
                 /\ gen' = [gen EXCEPT !.state = "done"]
                 /\ UNCHANGED <<pc, post, served, delivered>>
            [] ans.kind = "raise" ->
                 /\ gen' = StartPublic(gen, "fallback")
                 /\ UNCHANGED <<pc, post, served, delivered>>
            [] OTHER ->
                 /\ gen' = [gen EXCEPT !.considered = @ + 1]
                 /\ served' = served + 1
                 /\ IF Accepts(ans.item.score)
                    THEN /\ post' = praw_post(gen.sub, gen.considered + 1, ans.item)
                         /\ delivered' = Append(delivered, post')
                         /\ pc' = "got"
                    ELSE UNCHANGED <<pc, post, delivered>>
    /\ UNCHANGED <<config, _reddit_instance, validated, call, subidx, all_posts,
                   cutoff_time, top_comment, last_fetch, delay, prev_posts>>

\* The page request with `continue` in place of the `break` of line 147: a
\* failed request is tried again.
PublicRequestRetries ==
    /\ pc = "pull"
    /\ gen.state = "public"
    /\ IF gen.total_fetched < gen.limit
       THEN \E ans \in PageAnswers(gen.after) :
            /\ log' = Append(log, Op("GET top", gen.sub, gen.after,
                                     Min(gen.limit - gen.total_fetched, 100)))
            /\ served' = served + Len(ans.items)
            /\ gen' = [gen EXCEPT
                         !.state = IF ans.kind = "fail" THEN "public"
                                   ELSE IF ans.items = <<>> THEN "done" ELSE "page",
                         !.buf = ans.items,
                         !.base = gen.after,
                         !.cursor = ans.cursor,
                         !.pages = Append(@, ans),
                         !.reqs = Append(@, gen.after)]
       ELSE /\ gen' = [gen EXCEPT !.state = "done"]
            /\ UNCHANGED <<log, served>>
    /\ UNCHANGED <<config, _reddit_instance, validated, call, pc, subidx, post,
                   all_posts, cutoff_time, top_comment, last_fetch, delay, delivered,
                   prev_posts>>

\* A generator that runs ahead of its consumer: the next page is requested
\* while items of the current one are still to be yielded.
PublicRequestAhead ==
    /\ pc = "pull"
    /\ gen.state \in {"public", "page"}
    /\ IF gen.total_fetched < gen.limit
       THEN \E ans \in PageAnswers(gen.after) :
            /\ log' = Keep(log, Op("GET top", gen.sub, gen.after,
                                   Min(gen.limit - gen.total_fetched, 100)))
            /\ served' = IF Endless THEN served ELSE served + Len(ans.items)
            /\ gen' = [gen EXCEPT
                         !.state = IF ans.kind = "fail" \/ ans.items = <<>>
                                   THEN "done" ELSE "page",
                         !.buf = @ \o ans.items,
                         !.cursor = ans.cursor,
                         !.pages = Keep(@, ans),
                         !.reqs = Keep(@, gen.after)]
       ELSE /\ gen' = [gen EXCEPT !.state = "done"]
            /\ UNCHANGED <<log, served>>
    /\ UNCHANGED <<config, _reddit_instance, validated, call, pc, subidx, post,
                   all_posts, cutoff_time, top_comment, last_fetch, delay, delivered,
                   prev_posts>>

\* reddit_fetcher.py:132-151, the head of `while total_fetched < limit`: the
\* loop ends, or one page is requested; a failed request and an empty page
\* end the loop.
PublicRequest ==
    /\ pc = "pull"
    /\ gen.state = "public"
    /\ IF gen.total_fetched < gen.limit
       THEN \E ans \in PageAnswers(gen.after) :
            /\ log' = Keep(log, Op("GET top", gen.sub, gen.after,
                                   Min(gen.limit - gen.total_fetched, 100)))
            /\ served' = IF Endless THEN served ELSE served + Len(ans.items)
            /\ gen' = [gen EXCEPT
                         !.state = IF ans.kind = "fail" \/ ans.items = <<>>
                                   THEN "done" ELSE "page",
                         !.buf = ans.items,
                         !.base = gen.after,
                         !.cursor = ans.cursor,
                         !.pages = Keep(@, ans),
                         !.reqs = Keep(@, gen.after)]
       ELSE /\ gen' = [gen EXCEPT !.state = "done"]
            /\ UNCHANGED <<log, served>>
    /\ UNCHANGED <<config, _reddit_instance, validated, call, pc, subidx, post,
                   all_posts, cutoff_time, top_comment, last_fetch, delay, delivered, prev_posts>>

\* reddit_fetcher.py:153-174, one iteration of `for post in posts`: an item
\* whose score passes is turned into a post and yielded; slicing a null body
\* raises TypeError, which nothing between here and the top-level caller
\* catches.
PublicItem ==
    /\ pc = "pull"
    /\ gen.state = "page"
    /\ gen.buf # <<>>
    /\ LET item == Head(gen.buf)
       IN  IF Accepts(item.score)
           THEN IF item.selftext = NULL
                THEN /\ gen' = [gen EXCEPT !.state = "raised"]
                     /\ pc' = "raised"
                     /\ UNCHANGED <<post, delivered>>
                ELSE /\ post' = public_post(gen.sub, Rank(gen.base), item)
                     /\ delivered' = Append(delivered, post')
                     /\ gen' = [gen EXCEPT !.buf = Tail(@), !.base = Rank(@),
                                           !.total_fetched = @ + 1]
                     /\ pc' = "got"
           ELSE /\ gen' = [gen EXCEPT !.buf = Tail(@), !.base = Rank(@)]
                /\ UNCHANGED <<pc, post, delivered>>
    /\ UNCHANGED <<config, _reddit_instance, validated, call, subidx, all_posts,
                   cutoff_time, top_comment, last_fetch, delay, served, log, prev_posts>>

\* The end of a page without the `if not after: break` of line 177.
PublicPageEndNoBreak ==
    /\ pc = "pull"
    /\ gen.state = "page"
    /\ gen.buf = <<>>
    /\ gen' = [gen EXCEPT !.after = IF gen.cursor THEN gen.base ELSE 0,
                          !.state = "public"]
    /\ UNCHANGED <<config, _reddit_instance, validated, call, pc, subidx, post,
                   all_posts, cutoff_time, top_comment, last_fetch, delay, served,
                   delivered, log, prev_posts>>

\* reddit_fetcher.py:176-180, after the last item of a page: the cursor of the
\* page becomes `after`, and the loop ends when there is none.
PublicPageEnd ==
    /\ pc = "pull"
    /\ gen.state = "page"
    /\ gen.buf = <<>>
    /\ gen' = [gen EXCEPT !.after = IF gen.cursor THEN gen.base ELSE 0,
                          !.state = IF gen.cursor THEN "public" ELSE "done"]
    /\ UNCHANGED <<config, _reddit_instance, validated, call, pc, subidx, post,
                   all_posts, cutoff_time, top_comment, last_fetch, delay, served, delivered, log,
                   prev_posts>>

\* The creation-time filter with a strict comparison.
PassesCutoffStrict(p) == call.kind # "fetch_new_posts" \/ p.created_utc > cutoff_time

\* reddit_fetcher.py:283, the creation-time filter of fetch_new_posts.
PassesCutoff(p) == call.kind # "fetch_new_posts" \/ p.created_utc >= cutoff_time

\* reddit_fetcher.py:263 and :288, the delay slept after an enrichment (ms).
EnrichDelay ==
    IF call.kind = "fetch_all_posts"
    THEN (IF REDDIT_API_ENABLED THEN 300 ELSE 500)
    ELSE 300

\* reddit_fetcher.py:259-263 and :284-288, the enrichment of the post just
\* yielded: the top comment is fetched and merged in, then the delay is slept.
Enrich(ctor, me, pans, uans) ==
    /\ pc = "got"
    /\ Harvest
    /\ call.with_comments
    /\ PassesCutoff(post)
    /\ LET c == get_reddit_client(_reddit_instance, validated, ctor, me)
           r == fetch_top_comment(post.id, gen.sub, c, pans, uans)
       IN  /\ IF UsePraw
              THEN _reddit_instance' = c.inst /\ validated' = c.validated
              ELSE UNCHANGED <<_reddit_instance, validated>>
           /\ log' = log \o r.ops
           /\ last_fetch' = [praw |-> r.praw, pub |-> r.pub]
           /\ IF r.raised
              THEN /\ pc' = "raised"
                   /\ UNCHANGED <<post, top_comment, delay>>
              ELSE /\ top_comment' = r.ret
                   /\ post' = IF r.ret.some THEN Update(post, r.ret.value) ELSE post
                   /\ delay' = EnrichDelay
                   /\ pc' = "append"
    /\ UNCHANGED <<config, call, subidx, gen, all_posts, cutoff_time, served,
                   delivered, prev_posts>>

\* reddit_fetcher.py:265 and :289, all_posts.append(post); the caller of
\* fetch_subreddit_posts collects what it is given in the same way.  The
\* loop's local top_comment is dead once the post is appended.
AppendPost ==
    /\ \/ pc = "append"
       \/ pc = "got" /\ PassesCutoff(post) /\ ~(Harvest /\ call.with_comments)
    /\ all_posts' = Append(all_posts, post)
    /\ pc' = "pull"
    /\ top_comment' = Absent
    /\ last_fetch' = NoFetch
    /\ UNCHANGED <<config, _reddit_instance, validated, call, subidx, gen, post,
                   cutoff_time, delay, served, delivered, log, prev_posts>>

\* reddit_fetcher.py:302-305, a caller of fetch_subreddit_posts that leaves its
\* for loop after a post: the suspended generator is never resumed, it is
\* closed at its yield (GeneratorExit is no Exception, so the except clause
\* of line 87 does not run).
Break ==
    /\ pc = "got"
    /\ call.kind = "fetch_subreddit_posts"
    /\ all_posts' = Append(all_posts, post)
    /\ gen' = [gen EXCEPT !.state = "closed"]
    /\ pc' = "returned"
    /\ UNCHANGED <<config, _reddit_instance, validated, call, subidx, post,
                   cutoff_time, top_comment, last_fetch, delay, served, delivered,
                   log, prev_posts>>

\* reddit_fetcher.py:283, a post older than the cutoff is dropped.
SkipOld ==
    /\ pc = "got"
    /\ ~PassesCutoff(post)
    /\ pc' = "pull"
    /\ UNCHANGED <<config, _reddit_instance, validated, call, subidx, gen, post,
                   all_posts, cutoff_time, top_comment, last_fetch, delay, served, delivered, log,
                   prev_posts>>

\* The generator is exhausted: the for loop over it ends, and the harvest
\* goes to the next community (reddit_fetcher.py:255, :279).  The frame of
\* the generator and the loop's locals are dead from here on; the histories
\* kept per community start afresh.
EndOfSubreddit ==
    /\ pc = "pull"
    /\ gen.state = "done"
    /\ IF Harvest
       THEN subidx' = subidx + 1 /\ pc' = "loop"
       ELSE subidx' = subidx /\ pc' = "returned"
    /\ gen' = NoGen
    /\ post' = NoPost
    /\ top_comment' = Absent
    /\ last_fetch' = NoFetch
    /\ delay' = 0
    /\ log' = <<>>
    /\ UNCHANGED <<config, _reddit_instance, validated, call, all_posts,
                   cutoff_time, served, delivered, prev_posts>>

\* reddit_fetcher.py:227-235, fetch_top_comment called on its own.
TopComment(ctor, me, pans, uans) ==
    /\ pc = "comment"
    /\ LET c == get_reddit_client(_reddit_instance, validated, ctor, me)
           r == fetch_top_comment(call.post_id, SUBREDDITS[call.sub], c, pans, uans)
       IN  /\ IF UsePraw
              THEN _reddit_instance' = c.inst /\ validated' = c.validated
              ELSE UNCHANGED <<_reddit_instance, validated>>
           /\ log' = log \o r.ops
           /\ last_fetch' = [praw |-> r.praw, pub |-> r.pub]
           /\ top_comment' = IF r.raised THEN top_comment ELSE r.ret
           /\ pc' = IF r.raised THEN "raised" ELSE "returned"
    /\ UNCHANGED <<config, call, subidx, gen, post, all_posts, cutoff_time,
                   delay, served, delivered, prev_posts>>

Next ==
    \/ \E c \in Calls : Call(c)
    \/ ForSubreddit
    \/ ReturnPosts
    \/ \E ctor \in CtorAnswers, me \in MeAnswers : Dispatch(ctor, me)
    \/ PrawNext
    \/ PublicRequest
    \/ PublicItem
    \/ PublicPageEnd
    \/ \E ctor \in CtorAnswers, me \in MeAnswers, pans \in PrawCommentAnswers,
          uans \in PubCommentAnswers : Enrich(ctor, me, pans, uans)
    \/ AppendPost
    \/ Break
    \/ SkipOld
    \/ EndOfSubreddit
    \/ \E ctor \in CtorAnswers, me \in MeAnswers, pans \in PrawCommentAnswers,
          uans \in PubCommentAnswers : TopComment(ctor, me, pans, uans)

Spec == Init /\ [][Next]_vars

SpecScripted == InitScripted /\ [][Next]_vars

\* The program run against an endless endpoint.  The interpreter runs the
\* one thread of the program whenever it has a step to take, and a caller
\* makes a next call when one has returned.
SpecEndless == InitEndless /\ [][Next]_vars /\ WF_vars(Next)

(* ------------------------------ properties ---------------------------- *)

\* C1: every post a fetch has yielded, and every post in the list a harvest
\* accumulates and returns, has score >= MIN_SCORE, whichever transport
\* (authenticated, public, public after a failure) served it.
C1_ScoreFloor ==
    /\ \A i \in DOMAIN delivered : delivered[i].score >= MIN_SCORE
    /\ \A i \in DOMAIN all_posts : all_posts[i].score >= MIN_SCORE
    /\ pc \in {"got", "append"} => post.score >= MIN_SCORE

\* A fetch that ended after the authenticated listing yielded a post and
\* failed, the public transport yielded another, and an item was filtered out.
C1_Witness ==
    /\ gen.state = "done"
    /\ gen.entered = "fallback"
    /\ gen.pub_from >= 1
    /\ Len(delivered) > gen.pub_from
    /\ served > Len(delivered)

\* The items of a sequence of page answers, in page order and in-page order.
RECURSIVE Flatten(_)
Flatten(pages) ==
    IF pages = <<>> THEN <<>> ELSE Head(pages).items \o Flatten(Tail(pages))

\* The posts of the items with score >= MIN_SCORE, in order; rank is the
\* upstream rank of the first item.
RECURSIVE Filtered(_, _, _)
Filtered(subreddit, items, rank) ==
    IF items = <<>> THEN <<>>
    ELSE (IF Head(items).score >= MIN_SCORE
          THEN <<public_post(subreddit, rank, Head(items))>>
          ELSE <<>>) \o Filtered(subreddit, Tail(items), rank + 1)

\* A finite sequence of non-empty pages, every page but the last with a
\* cursor and the last with none.
WellServed(pages) ==
    /\ pages # <<>>
    /\ \A k \in DOMAIN pages :
          /\ pages[k].kind = "page"
          /\ pages[k].items # <<>>
          /\ pages[k].cursor <=> k < Len(pages)

\* What the running activation of fetch_subreddit_posts_public has yielded.
PublicYielded == SubSeq(delivered, gen.pub_from + 1, Len(delivered))

\* C2: no page request follows a non-empty page that carried no cursor; and an
\* activation of fetch_subreddit_posts_public that ran to its end on a
\* well-served sequence of pages, with a limit above the number of accepted
\* posts, has yielded exactly the posts of those pages with score >=
\* MIN_SCORE, in page and in-page order, with one request per page, each
\* carrying the cursor of the page before it.
C2_Pagination ==
    /\ \A k \in 1..(Len(gen.pages) - 1) :
          (gen.pages[k].kind = "page" /\ gen.pages[k].items # <<>>)
              => gen.pages[k].cursor
    /\ ( /\ gen.state = "done"
         /\ WellServed(gen.pages)
         /\ gen.limit > Len(Filtered(gen.sub, Flatten(gen.pages), 1)) )
       => /\ PublicYielded = Filtered(gen.sub, Flatten(gen.pages), 1)
          /\ Len(gen.reqs) = Len(gen.pages)
          /\ \A k \in DOMAIN gen.reqs :
                gen.reqs[k] = Len(Flatten(SubSeq(gen.pages, 1, k - 1)))

\* Two pages, three items, one of them below the threshold: two posts, two
\* requests.
C2_Witness ==
    /\ gen.state = "done"
    /\ gen.entered = "direct"
    /\ WellServed(gen.pages)
    /\ Len(gen.pages) = 2
    /\ Len(Flatten(gen.pages)) = 3
    /\ Len(PublicYielded) = 2
    /\ gen.limit > 2

\* What fetch_subreddit_posts_public yields when it alone reads the scripted
\* public endpoint: the loop of reddit_fetcher.py:132-180 from the cursor
\* `after` with `total` posts counted so far.
RECURSIVE ScriptedPublic(_, _, _, _)
ScriptedPublic(subreddit, limit, after, total) ==
    IF total >= limit THEN <<>>
    ELSE LET last == Min(after + env.page_size, Len(env.listing))
             items == SubSeq(env.listing, after + 1, last)
             got == Filtered(subreddit, items, after + 1)
         IN  IF items = <<>> THEN <<>>
             ELSE IF last < Len(env.listing)
             THEN got \o ScriptedPublic(subreddit, limit, last, total + Len(got))
             ELSE got

\* The post after the enrichment the scripted public endpoint allows
\* (reddit_fetcher.py:259-262 with fetch_top_comment_public).
ScriptedEnriched(p, with_comments) ==
    IF with_comments /\ env.pub_comment = "comment"
    THEN Update(p, Comment(p.subreddit, p.id))
    ELSE p

\* The list fetch_all_posts builds over the communities from index i on when
\* only the public transport is used against the scripted public endpoint.
RECURSIVE PublicAlone(_, _, _)
PublicAlone(i, with_comments, limit) ==
    IF i > Len(SUBREDDITS) THEN <<>>
    ELSE LET block == ScriptedPublic(SUBREDDITS[i], limit, 0, 0)
         IN  [k \in 1..Len(block) |-> ScriptedEnriched(block[k], with_comments)]
             \o PublicAlone(i + 1, with_comments, limit)

\* C3: with credentials configured and the library available, when every
\* operation of the authenticated transport raises, the list fetch_all_posts
\* returns is the list a run on the public transport alone builds from the
\* same public answers: same posts, same order, same fields, same comments.
C3_FallbackEquivalence ==
    ( /\ env.mode = "scripted"
      /\ env.ctor = "raise"
      /\ call.kind = "fetch_all_posts"
      /\ pc = "returned" )
    => all_posts = PublicAlone(1, call.with_comments, call.limit)

\* Such a harvest has returned posts of both communities, with comments.
C3_Witness ==
    /\ env.mode = "scripted"
    /\ env.ctor = "raise"
    /\ call.kind = "fetch_all_posts"
    /\ call.with_comments
    /\ pc = "returned"
    /\ Len(all_posts) >= 3
    /\ \A i \in DOMAIN all_posts : "comment_id" \in DOMAIN all_posts[i]
    /\ \E i \in DOMAIN all_posts : all_posts[i].subreddit = SUBREDDITS[1]
    /\ \E i \in DOMAIN all_posts : all_posts[i].subreddit = SUBREDDITS[2]

\* A post without the comment fields an enrichment may have added.
Strip(p) == [k \in DOMAIN p \ CommentFields |-> p[k]]

\* The post was created at or after now - since_hours * 3600.
Recent(p) == p.created_utc >= Now - call.since_hours * 3600

\* C4: fetch_new_posts reads the day window, its cutoff is now -
\* since_hours * 3600 for the whole call, and between two posts and when it
\* returns its list is exactly the posts the transport delivered with
\* created_utc >= cutoff (a post exactly on the cutoff included), in the order
\* of delivery.
C4_Cutoff ==
    call.kind = "fetch_new_posts"
    => /\ cutoff_time = Now - call.since_hours * 3600
       /\ gen.state # "none" => gen.time_filter = "day"
       /\ pc \in {"loop", "pull", "returned"}
          => [i \in 1..Len(all_posts) |-> Strip(all_posts[i])]
                = SelectSeq(delivered, Recent)

\* It has returned two of three delivered posts, one of them created exactly
\* on the cutoff, the third one second older.
C4_Witness ==
    /\ call.kind = "fetch_new_posts"
    /\ pc = "returned"
    /\ Len(delivered) = 3
    /\ Len(all_posts) = 2
    /\ \E i \in DOMAIN all_posts : all_posts[i].created_utc = cutoff_time
    /\ \E i \in DOMAIN delivered : delivered[i].created_utc = cutoff_time - 1

\* C5: a fetch_all_posts call that repeats the call made just before it, with
\* the same arguments and against transports that answer every request as they
\* did then, returns the list that call returned.
C5_Deterministic ==
    (pc = "returned" /\ prev_posts # <<>>) => all_posts = prev_posts[1]

\* C6: no call of fetch_all_posts or fetch_new_posts ends with an exception,
\* whatever the transports answer.
C6_NoException == Harvest => pc # "raised"

\* The position of a community in SUBREDDITS.
SubIndex(name) == CHOOSE i \in 1..Len(SUBREDDITS) : SUBREDDITS[i] = name

\* C7: the list of fetch_all_posts is one block per community in the order of
\* SUBREDDITS, and inside a block no post stands before a post ranked above it.
C7_Ordered ==
    call.kind = "fetch_all_posts"
    => \A i, j \in DOMAIN all_posts :
          i < j =>
            /\ SubIndex(all_posts[i].subreddit) <= SubIndex(all_posts[j].subreddit)
            /\ all_posts[i].subreddit = all_posts[j].subreddit
               => all_posts[i].id <= all_posts[j].id

\* The number of posts of a community in a list.
CountOf(posts, name) == Cardinality({i \in DOMAIN posts : posts[i].subreddit = name})

\* C8: no community has more than limit_per_sub posts in the list of
\* fetch_all_posts, and fetch_subreddit_posts(limit) yields at most limit posts.
C8_AtMostLimit ==
    /\ call.kind = "fetch_all_posts"
       => \A k \in DOMAIN SUBREDDITS : CountOf(all_posts, SUBREDDITS[k]) <= call.limit
    /\ call.kind = "fetch_subreddit_posts" => Len(delivered) <= call.limit

\* The operations of the authenticated transport.
AuthOps == {"praw.Reddit", "user.me", "sub.top", "reddit.submission"}

\* C9: without credentials or without the client library, the cached client
\* stays unset, no operation of the authenticated transport is performed, no
\* authenticated fetch function is entered, and every fetch is the public one.
C9_PublicOnly ==
    ~(REDDIT_API_ENABLED /\ PRAW_AVAILABLE)
    => /\ _reddit_instance = None
       /\ \A i \in DOMAIN log : log[i].op \notin AuthOps
       /\ gen.state # "praw"
       /\ gen.entered \in {"", "direct"}
       /\ last_fetch.praw = ""

\* Credentials configured but no client library: a post was fetched from the
\* public endpoint and its comment too.
C9_Witness ==
    /\ REDDIT_API_ENABLED
    /\ ~PRAW_AVAILABLE
    /\ Harvest
    /\ pc = "append"
    /\ top_comment.some
    /\ \E i \in DOMAIN log : log[i].op = "GET top"
    /\ \E i \in DOMAIN log : log[i].op = "GET comments"

\* C10: when the authenticated comment fetch raised, the public comment
\* endpoint was asked for the same post, and a comment it has is the result.
C10_CommentFallback ==
    last_fetch.praw = "raise"
    => /\ last_fetch.pub # ""
       /\ last_fetch.pub = "comment" => top_comment.some

\* The last page request of the running public activation failed.
FailedLast == gen.pages # <<>> /\ gen.pages[Len(gen.pages)].kind = "fail"

\* The end of the consumer's loop over a generator whose last request failed:
\* nothing is raised, the lists stay as they are, and a harvest goes on to
\* the next community.
AfterFailedPage ==
    FailedLast
    => /\ all_posts' = all_posts
       /\ delivered' = delivered
       /\ IF Harvest
          THEN pc' = "loop" /\ subidx' = subidx + 1
          ELSE pc' = "returned"

\* C11: a failed page request of fetch_subreddit_posts_public is the last
\* request of the call; the generator then is exhausted without raising, the
\* caller has exactly the posts yielded from the pages before the failure, and
\* the harvest goes on to the next community with its list unchanged.
C11_FailureEndsPagination ==
    /\ [](\A k \in 1..(Len(gen.pages) - 1) : gen.pages[k].kind # "fail")
    /\ [](FailedLast
            => /\ gen.state = "done"
               /\ pc = "pull"
               /\ PublicYielded = Filtered(gen.sub, Flatten(gen.pages), 1))
    /\ [][AfterFailedPage]_vars

\* The second request of the first community of a harvest failed after the
\* first page had given a post.
C11_Witness ==
    /\ FailedLast
    /\ Harvest
    /\ subidx = 1
    /\ Len(gen.pages) = 2
    /\ Len(PublicYielded) >= 1

\* C12: the sequence a caller receives for a community holds each upstream
\* post (each id) at most once, also when the authenticated fetch raised
\* midway and the public transport took over.
C12_NoDuplicates ==
    \A i, j \in DOMAIN delivered :
        (i < j /\ delivered[i].subreddit = delivered[j].subreddit)
            => delivered[i].id # delivered[j].id

\* C13: a failed connection is not remembered: posts and comments are fetched
\* from the authenticated client only when its connection validation
\* succeeded; a client whose validation failed serves nothing, in the call
\* where it failed and in the calls after it.
C13_FailedClientUnused ==
    /\ gen.state = "praw" => validated
    /\ last_fetch.praw # "" => validated
    /\ \A i \in DOMAIN log :
          log[i].op \in {"sub.top", "reddit.submission"} => validated

\* The number of runs of the client constructor among the operations in h.
Constructions(h) == Cardinality({i \in DOMAIN h : h[i].op = "praw.Reddit"})

\* The operations a step adds to the history (the history starts afresh at
\* the end of a community and at a call).
NewOps ==
    IF Len(log') >= Len(log) /\ SubSeq(log', 1, Len(log)) = log
    THEN SubSeq(log', Len(log) + 1, Len(log'))
    ELSE log'

\* C14 as stated: the client constructor runs at most once, also when a
\* construction or a validation failed (here: already among the operations
\* for one community of one call); a cached instance is never replaced; no
\* client exists before the first fetch.
C14_ConstructedOnce ==
    /\ Constructions(log) <= 1
    /\ pc = "idle" => _reddit_instance = None

\* One step of the program and the cached client: a cached instance is never
\* replaced and no constructor runs while one is cached; the cache is set
\* only by a fetch step of a configuration with credentials and library,
\* in which the constructor ran.
CachedOnce ==
    /\ _reddit_instance # None
       => _reddit_instance' = _reddit_instance /\ Constructions(NewOps) = 0
    /\ _reddit_instance' # _reddit_instance
       => /\ REDDIT_API_ENABLED /\ PRAW_AVAILABLE
          /\ pc \in {"pull", "got", "comment"}
          /\ Constructions(NewOps) = 1
    /\ Constructions(NewOps) <= 1

\* C14 amended: no client is cached before the first fetch that needs one;
\* the cache is set at most once, by a construction that succeeded, and from
\* then on the instance is never replaced and the constructor never runs
\* again; a construction that raised leaves the cache unset (and the next
\* get_reddit_client call constructs again).
C14_CachedOnce ==
    /\ [](pc = "idle" => _reddit_instance = None)
    /\ [][CachedOnce]_vars

\* For one community the constructor raised at the first call and succeeded
\* at a later one.
C14_Witness ==
    /\ _reddit_instance = Client
    /\ validated
    /\ Constructions(log) = 2

\* C15: a fully consumed run of fetch_subreddit_posts_public always ends,
\* whatever the endpoint answers: a generator in its page loop eventually
\* leaves it (exhausted, or with an exception).
C15_PublicTerminates ==
    gen.state \in {"public", "page"} ~> gen.state \notin {"public", "page"}

\* The operations of a top-comment fetch, on either transport.
CommentOps == {"reddit.submission", "GET comments"}

\* C16: in a harvest with comments the delay slept after an enrichment is
\* 300 ms exactly when the authenticated transport is the one selected
\* (credentials configured and library available) and 500 ms when the public
\* one is; in a harvest without comments there is no comment fetch and no
\* delay.
C16_DelayByTransport ==
    /\ (Harvest /\ pc = "append") => delay = IF UsePraw THEN 300 ELSE 500
    /\ (Harvest /\ ~call.with_comments)
          => /\ delay = 0
             /\ pc # "append"
             /\ \A i \in DOMAIN log : log[i].op \notin CommentOps

\* The top-comment fetches made for the community in progress, in order.
CommentFetches == SelectSeq(log, LAMBDA o : o.op \in CommentOps)

\* The posts appended for the community in progress, in order.
Appended == SelectSeq(all_posts, LAMBDA p : p.subreddit = gen.sub)

\* p is the yielded post y with the four fields of comment c added.
Merged(p, y, c) ==
    /\ DOMAIN p = DOMAIN y \cup CommentFields
    /\ \A k \in DOMAIN y : p[k] = y[k]
    /\ \A k \in CommentFields : p[k] = c[k]

EnrichedOnce ==
    Harvest =>
      /\ Len(all_posts) <= Len(delivered)
      /\ \A i \in DOMAIN all_posts :
            LET p == all_posts[i]
            IN  /\ \E j \in DOMAIN delivered : Strip(p) = delivered[j]
                /\ call.kind = "fetch_all_posts" => Strip(p) = delivered[i]
                /\ \/ p = Strip(p)
                   \/ /\ call.with_comments
                      /\ Merged(p, Strip(p), Comment(p.subreddit, p.id))
      /\ gen.state # "none" =>
            IF call.with_comments
            THEN /\ Len(CommentFetches)
                      = Len(Appended)
                        + (IF pc = "append" \/ (pc = "raised" /\ last_fetch # NoFetch)
                           THEN 1 ELSE 0)
                 /\ \A i \in DOMAIN Appended :
                       /\ CommentFetches[i].after = Appended[i].id
                       /\ CommentFetches[i].sub = gen.sub
            ELSE CommentFetches = <<>>
      /\ pc = "append" =>
            LET y == delivered[Len(delivered)]
            IN  /\ CommentFetches[Len(CommentFetches)].after = y.id
                /\ IF top_comment.some
                   THEN Merged(post, y, top_comment.value)
                   ELSE post = y

AppendsEnriched == pc = "append" => all_posts' = Append(all_posts, post)

\* The enrichment of a yielded post always ends with the post ready to be
\* appended, as yielded or with a comment merged in.
EnrichmentAppends ==
    (pc = "got" /\ Harvest /\ call.with_comments /\ PassesCutoff(post))
        => /\ pc' = "append"
           /\ \/ post' = post
              \/ Merged(post', post, Comment(post.subreddit, post.id))

\* C17: in a harvest with comments exactly one top-comment fetch is made for
\* each post appended to the list, in their order, and none for a post the
\* time cutoff rejects; a post whose fetch gave no comment (absent or
\* failed) is appended exactly as the transport yielded it, and a post whose
\* fetch gave a comment is appended with the four comment fields added and
\* every post field as yielded.  Without comments no fetch is made.
C17_EnrichedOnce ==
    /\ []EnrichedOnce
    /\ [][AppendsEnriched]_vars
    /\ [][EnrichmentAppends]_vars

\* The number of page requests among the operations in h.
PageRequests(h) == Cardinality({i \in DOMAIN h : h[i].op = "GET top"})

\* The items of the requested pages that the generator has gone through.
Consumed ==
    SubSeq(Flatten(gen.pages), 1, Len(Flatten(gen.pages)) - Len(gen.buf))

\* The public generator has asked for no more pages than it was pulled
\* through: what it yielded are the accepted items it went through, and the
\* items still buffered are the rest of the last page requested.
NoPrefetch ==
    (gen.entered # "" /\ gen.state \in {"public", "page", "done", "closed"})
        => /\ PublicYielded = Filtered(gen.sub, Consumed, 1)
           /\ PageRequests(log) = Len(gen.pages)
           /\ gen.buf # <<>>
                 => Len(gen.buf) <= Len(gen.pages[Len(gen.pages)].items)

\* The requests of a harvest are those of the community its loop stands at.
OneCommunity ==
    /\ (Harvest /\ gen.state # "none")
          => /\ gen.sub = SUBREDDITS[subidx]
             /\ \A i \in DOMAIN log : log[i].sub \in {"", gen.sub}
    /\ (Harvest /\ gen.state = "none") => log = <<>>
    /\ gen.state = "closed" => pc = "returned"

\* A step that requests a page: one request, made when the consumer pulls,
\* with nothing buffered, every accepted post of the pages before handed
\* over and, in a harvest, appended (and enriched when comments are asked).
RequestStep ==
    PageRequests(NewOps) > 0
        => /\ pc = "pull"
           /\ gen.state = "public"
           /\ gen.buf = <<>>
           /\ Len(NewOps) = 1
           /\ NewOps[1].sub = gen.sub
           /\ PublicYielded = Filtered(gen.sub, Flatten(gen.pages), 1)
           /\ call.kind \in {"fetch_all_posts", "fetch_subreddit_posts"}
                 => Len(all_posts) = Len(delivered)
           /\ (Harvest /\ call.with_comments)
                 => Len(CommentFetches) = Len(Appended)

\* The harvest moves to the next community only from an exhausted generator.
OrderStep ==
    (pc \notin {"idle", "returned", "raised"} /\ subidx' # subidx)
        => /\ gen.state = "done"
           /\ pc = "pull"
           /\ subidx' = subidx + 1

\* Once the consumer has stopped (it returned, broke out of its loop, or an
\* exception ended the call) no operation is performed for that call.
StopStep == pc \in {"returned", "raised"} => NewOps = <<>>

\* C18: the page requests are sequential and made only when the consumer
\* pulls: a page is requested only after every accepted post of the pages
\* before it was handed to the consumer (and appended and enriched in a
\* harvest); after the consumer stopped pulling nothing more is requested
\* for the call; the requests of a harvest are made community by community,
\* the next one starting only when the generator of the one before is
\* exhausted.
C18_PullDriven ==
    /\ []NoPrefetch
    /\ []OneCommunity
    /\ [][RequestStep /\ OrderStep /\ StopStep]_vars

\* The consumer left its loop after the first post of a page of two that
\* carried a cursor: one request was made, one item is still buffered.
C18_Witness ==
    /\ gen.state = "closed"
    /\ gen.entered = "direct"
    /\ Len(gen.pages) = 1
    /\ gen.pages[1].cursor
    /\ Len(gen.buf) = 1
    /\ PageRequests(log) = 1
    /\ Len(all_posts) = 1

====
